---- MODULE Spec2Model ----
(***************************************************************************)
(* A model of rinku's link detectors (ext/rinku/autolink.c):               *)
(* autolink_issafe, check_domain, autolink_delim and the three matchers    *)
(* autolink__www, autolink__email and autolink__url.                       *)
(*                                                                         *)
(* A buffer is a sequence of byte values 0..255.  All offsets (pos, start, *)
(* end, i) are the 0-based offsets of the C code; At(d, i) is d[i] of C.   *)
(***************************************************************************)
EXTENDS Integers, Sequences, FiniteSets, TLC

VARIABLES
    data,       \* const uint8_t *data, with size == Len(data)
    pos,        \* the trigger offset handed to a matcher
    flags,      \* unsigned int flags
    op,         \* which function was called: "www", "email", "url", "delim", "issafe"
    pc,         \* where the call stands: "entry", "cut", "trim", "bracket", "done"
    link,       \* struct autolink_pos *link: [start, end]
    given,      \* the span autolink_delim was entered with
    loop_end,   \* link->end when the punctuation loop of autolink_delim was left
    ok,         \* the bool the call returned (read when pc = "done")
    ub,         \* the call read outside the buffer (undefined behaviour)
    run,        \* 1, or 2 when autolink_delim is applied again to its own result
    first       \* the result of run 1, kept when run 2 starts

vars == <<data, pos, flags, op, pc, link, given, loop_end, ok, ub, run, first>>

size == Len(data)

-----------------------------------------------------------------------------
(* Bytes.  Printable lists the characters of codes 32..126 in order, so    *)
(* that Ord gives the ASCII code of a character; "NUL" stands for byte 0   *)
(* and "GRAVE" for the grave accent, code 96.                              *)

Printable ==
    << " ", "!", "\"", "#", "$", "%", "&", "'", "(", ")", "*", "+", ",", "-", ".", "/",
       "0", "1", "2", "3", "4", "5", "6", "7", "8", "9", ":", ";", "<", "=", ">", "?",
       "@", "A", "B", "C", "D", "E", "F", "G", "H", "I", "J", "K", "L", "M", "N", "O",
       "P", "Q", "R", "S", "T", "U", "V", "W", "X", "Y", "Z", "[", "\\", "]", "^", "_",
       "GRAVE", "a", "b", "c", "d", "e", "f", "g", "h", "i", "j", "k", "l", "m", "n", "o",
       "p", "q", "r", "s", "t", "u", "v", "w", "x", "y", "z", "{", "|", "}", "~" >>

OrdOf ==
    [c \in {Printable[i] : i \in 1..Len(Printable)} \cup {"NUL"} |->
        IF c = "NUL" THEN 0 ELSE 31 + (CHOOSE i \in 1..Len(Printable) : Printable[i] = c)]

Ord(c) == OrdOf[c]

\* A C string or buffer literal: the bytes of a tuple of characters.
Bytes(t) == [i \in 1..Len(t) |-> Ord(t[i])]

At(d, i) == d[i + 1]

\* <ctype.h> in the "C" locale.
isdigit(c) == c \in 48..57
isupper(c) == c \in 65..90
islower(c) == c \in 97..122
isalpha(c) == isupper(c) \/ islower(c)
isalnum(c) == isalpha(c) \/ isdigit(c)
isspace(c) == c \in 9..13 \/ c = 32
ispunct(c) == c \in 33..47 \/ c \in 58..64 \/ c \in 91..96 \/ c \in 123..126
tolower(c) == IF isupper(c) THEN c + 32 ELSE c

\* strchr(s, c) != NULL for a C string s.  The terminating NUL of s is part
\* of the string, so c = 0 is found in every s.
strchr(s, c) == c = 0 \/ \E i \in 1..Len(s) : s[i] = c

\* strncasecmp(s1, s2, n) from offset i on: the difference of the first pair
\* of bytes that differ after tolower, 0 when n bytes agree or both strings end.
\* s2 is a C string: its byte at Len(s2) is the terminating NUL.
RECURSIVE strncasecmp_from(_, _, _, _)
strncasecmp_from(s1, s2, n, i) ==
    IF i >= n THEN 0
    ELSE LET c1 == tolower(At(s1, i))
             c2 == IF i < Len(s2) THEN tolower(At(s2, i)) ELSE 0
         IN  IF c1 # c2 THEN c1 - c2
             ELSE IF c1 = 0 THEN 0
             ELSE strncasecmp_from(s1, s2, n, i + 1)

strncasecmp(s1, s2, n) == strncasecmp_from(s1, s2, n, 0)

-----------------------------------------------------------------------------
(* autolink_issafe *)

valid_uris_count == 5

valid_uris ==
    << Bytes(<<"/">>),
       Bytes(<<"h","t","t","p",":","/","/">>),
       Bytes(<<"h","t","t","p","s",":","/","/">>),
       Bytes(<<"f","t","p",":","/","/">>),
       Bytes(<<"m","a","i","l","t","o",":">>) >>

autolink_issafe_nolen(link_, link_len) ==
    \E i \in 1..valid_uris_count :
        LET len == Len(valid_uris[i])
        IN  /\ link_len >= len
            /\ strncasecmp(link_, valid_uris[i], len) = 0
            /\ link_len > len => isalnum(At(link_, len))

autolink_issafe(link_, link_len) ==
    \E i \in 1..valid_uris_count :
        LET len == Len(valid_uris[i])
        IN  /\ link_len > len
            /\ strncasecmp(link_, valid_uris[i], len) = 0
            /\ isalnum(At(link_, len))

-----------------------------------------------------------------------------
(* check_domain *)

\* AUTOLINK_SHORT_DOMAINS of autolink.h, exported by Init_rinku.
AUTOLINK_SHORT_DOMAINS == 1

\* The flags passed whole where the code masks them: any bit allows short domains.
allow_short_of_any_bit(f) == f # 0

\* flags & AUTOLINK_SHORT_DOMAINS, passed as the bool allow_short.
allow_short_of(f) == (f \div AUTOLINK_SHORT_DOMAINS) % 2 = 1

\* The for loop of check_domain from offset i with np dots counted so far:
\* [i, np] when the loop is left.
RECURSIVE domain_scan(_, _, _, _)
domain_scan(d, sz, i, np) ==
    IF i < sz - 1
    THEN IF At(d, i) = Ord(".") THEN domain_scan(d, sz, i + 1, np + 1)
         ELSE IF ~isalnum(At(d, i)) /\ At(d, i) # Ord("-") THEN [i |-> i, np |-> np]
         ELSE domain_scan(d, sz, i + 1, np)
    ELSE [i |-> i, np |-> np]

\* check_domain(data, size, link, allow_short): [ok, link].
check_domain(d, sz, l, allow_short) ==
    IF ~isalnum(At(d, l.start))
    THEN [ok |-> FALSE, link |-> l]
    ELSE LET r == domain_scan(d, sz, l.start + 1, 0)
         IN  [ok |-> allow_short \/ r.np > 0, link |-> [l EXCEPT !.end = r.i]]

\* The off-by-one "link->end <= size": the byte after the buffer is read and,
\* not being a space, is taken into the span.
RECURSIVE skip_nonspace_past_end(_, _, _)
skip_nonspace_past_end(d, sz, e) ==
    IF e < sz /\ ~isspace(At(d, e)) THEN skip_nonspace_past_end(d, sz, e + 1)
    ELSE IF e = sz THEN sz + 1 ELSE e

\* while (link->end < size && !isspace(data[link->end])) link->end++;
RECURSIVE skip_nonspace(_, _, _)
skip_nonspace(d, sz, e) ==
    IF e < sz /\ ~isspace(At(d, e)) THEN skip_nonspace(d, sz, e + 1) ELSE e

-----------------------------------------------------------------------------
(* The matchers up to their call of autolink_delim: [ok, link], where ok   *)
(* FALSE is an early "return false" and ok TRUE hands link to the trimmer. *)

\* strncasecmp where the code has memcmp: WWW. is taken for www.
memcmp_www_nocase(d, p) ==
    /\ tolower(At(d, p)) = Ord("w")
    /\ tolower(At(d, p + 1)) = Ord("w")
    /\ tolower(At(d, p + 2)) = Ord("w")
    /\ At(d, p + 3) = Ord(".")

\* memcmp(data + pos, "www.", strlen("www.")) == 0
memcmp_www(d, p) ==
    /\ At(d, p) = Ord("w")
    /\ At(d, p + 1) = Ord("w")
    /\ At(d, p + 2) = Ord("w")
    /\ At(d, p + 3) = Ord(".")

autolink__www_head(d, p, sz, f, l) ==
    IF p > 0 /\ ~ispunct(At(d, p - 1)) /\ ~isspace(At(d, p - 1))
    THEN [ok |-> FALSE, link |-> l]
    ELSE IF sz - p < 4 \/ ~memcmp_www(d, p)
    THEN [ok |-> FALSE, link |-> l]
    ELSE LET cd == check_domain(d, sz, [start |-> p, end |-> 0], FALSE)
         IN  IF ~cd.ok THEN cd
             ELSE [ok |-> TRUE,
                   link |-> [cd.link EXCEPT !.end = skip_nonspace(d, sz, cd.link.end)]]

\* for (; link->start > 0; link->start--) over alphanumerics and strchr(".+-_", c).
RECURSIVE email_rewind(_, _)
email_rewind(d, s) ==
    IF s > 0 /\ (isalnum(At(d, s - 1)) \/ strchr(Bytes(<<".", "+", "-", "_">>), At(d, s - 1)))
    THEN email_rewind(d, s - 1)
    ELSE s

\* for (; link->end < size; link->end++) counting '@' in nb and non-final '.' in np.
RECURSIVE email_scan(_, _, _, _, _)
email_scan(d, sz, e, nb, np) ==
    IF e < sz
    THEN LET c == At(d, e)
         IN  IF isalnum(c) THEN email_scan(d, sz, e + 1, nb, np)
             ELSE IF c = Ord("@") THEN email_scan(d, sz, e + 1, nb + 1, np)
             ELSE IF c = Ord(".") /\ e < sz - 1 THEN email_scan(d, sz, e + 1, nb, np + 1)
             ELSE IF c # Ord("-") /\ c # Ord("_") THEN [end |-> e, nb |-> nb, np |-> np]
             ELSE email_scan(d, sz, e + 1, nb, np)
    ELSE [end |-> e, nb |-> nb, np |-> np]

autolink__email_head(d, p, sz, f, l) ==
    LET s == email_rewind(d, p)
    IN  IF s = p THEN [ok |-> FALSE, link |-> [start |-> s, end |-> p]]
        ELSE LET r == email_scan(d, sz, p, 0, 0)
             IN  [ok |-> ~(r.end - p < 2 \/ r.nb # 1 \/ r.np = 0),
                  link |-> [start |-> s, end |-> r.end]]

\* while (link->start && isalpha(data[link->start - 1])) link->start--;
RECURSIVE url_rewind(_, _)
url_rewind(d, s) ==
    IF s > 0 /\ isalpha(At(d, s - 1)) THEN url_rewind(d, s - 1) ELSE s

\* A matcher that forgets the whitelist: every scheme is accepted.
url_issafe_any(d, sz, s) == TRUE

\* autolink_issafe(data + link->start, size - link->start)
url_issafe(d, sz, s) == autolink_issafe(SubSeq(d, s + 1, sz), sz - s)

autolink__url_head(d, p, sz, f, l) ==
    IF sz - p < 4 \/ At(d, p + 1) # Ord("/") \/ At(d, p + 2) # Ord("/")
    THEN [ok |-> FALSE, link |-> l]
    ELSE LET cd == check_domain(d, sz, [start |-> p + 3, end |-> 0], allow_short_of(f))
         IN  IF ~cd.ok THEN cd
             ELSE LET e == skip_nonspace(d, sz, cd.link.end)
                      s == url_rewind(d, p)
                  IN  [ok |-> url_issafe(d, sz, s), link |-> [start |-> s, end |-> e]]

-----------------------------------------------------------------------------
(* autolink_delim, in the steps of its code *)

\* The first offset in [i, e) holding '<', or e: the for loop of lines 58-62.
RECURSIVE find_lt(_, _, _)
find_lt(d, i, e) ==
    IF i < e THEN (IF At(d, i) = Ord("<") THEN i ELSE find_lt(d, i + 1, e)) ELSE e

\* The C string "?!.,:" handed to strchr.
TrimChars == Bytes(<<"?", "!", ".", ",", ":">>)

\* while (new_end > 0 && isalpha(data[new_end])) new_end--;
RECURSIVE charref_walk(_, _)
charref_walk(d, new_end) ==
    IF new_end > 0 /\ isalpha(At(d, new_end)) THEN charref_walk(d, new_end - 1) ELSE new_end

\* The new link->end of the ';' branch, for link->end >= 2.
semi_end(d, l) ==
    LET new_end == charref_walk(d, l.end - 2)
    IN  IF new_end < l.end - 2 /\ At(d, new_end) = Ord("&") THEN new_end ELSE l.end - 1

\* The switch on cclose: copen, 0 when cclose closes nothing.
copen_of(cclose) ==
    CASE cclose = Ord("\"") -> Ord("\"")
      [] cclose = Ord("'")  -> Ord("'")
      [] cclose = Ord(")")  -> Ord("(")
      [] cclose = Ord("]")  -> Ord("[")
      [] cclose = Ord("}")  -> Ord("{")
      [] OTHER              -> 0

\* The counting loop of lines 120-127 from offset i on: [opening, closing].
RECURSIVE count_brackets(_, _, _, _, _, _, _)
count_brackets(d, i, e, copen, cclose, opening, closing) ==
    IF i < e
    THEN IF At(d, i) = copen
         THEN count_brackets(d, i + 1, e, copen, cclose, opening + 1, closing)
         ELSE IF At(d, i) = cclose
         THEN count_brackets(d, i + 1, e, copen, cclose, opening, closing + 1)
         ELSE count_brackets(d, i + 1, e, copen, cclose, opening, closing)
    ELSE [opening |-> opening, closing |-> closing]

\* link->end after lines 85-131, cclose being the byte read at link->end - 1.
bracket_end(d, l, cclose) ==
    IF copen_of(cclose) # 0
    THEN LET n == count_brackets(d, l.start, l.end, copen_of(cclose), cclose, 0, 0)
         IN  IF n.closing # n.opening THEN l.end - 1 ELSE l.end
    ELSE l.end

\* The loop condition and the two branches that keep the loop going.
LastByte == At(data, link.end - 1)
InLoop == link.end > link.start
AtPunct == InLoop /\ strchr(TrimChars, LastByte)
AtSemi == InLoop /\ ~strchr(TrimChars, LastByte) /\ LastByte = Ord(";")

\* Lines 58-62: cut the span at its first '<'.
DelimCut ==
    /\ pc = "cut"
    /\ link' = [link EXCEPT !.end = find_lt(data, link.start, link.end)]
    /\ pc' = "trim"
    /\ UNCHANGED <<data, pos, flags, op, given, loop_end, ok, ub, run, first>>

\* An "if" where the code has "while": one byte is trimmed and the loop is left.
DelimTrimPunctOnce ==
    /\ pc = "trim"
    /\ AtPunct
    /\ link' = [link EXCEPT !.end = link.end - 1]
    /\ loop_end' = link.end - 1
    /\ IF link.end - 1 = link.start
       THEN pc' = "done" /\ ok' = FALSE
       ELSE pc' = "bracket" /\ ok' = ok
    /\ UNCHANGED <<data, pos, flags, op, given, ub, run, first>>

\* Lines 65-66: the last byte is found in "?!.,:" and dropped.
DelimTrimPunct ==
    /\ pc = "trim"
    /\ AtPunct
    /\ link' = [link EXCEPT !.end = link.end - 1]
    /\ UNCHANGED <<data, pos, flags, op, pc, given, loop_end, ok, ub, run, first>>

\* Lines 68-78: the last byte is ';'.
DelimTrimSemi ==
    /\ pc = "trim"
    /\ AtSemi
    /\ link.end >= 2
    /\ link' = [link EXCEPT !.end = semi_end(data, link)]
    /\ UNCHANGED <<data, pos, flags, op, pc, given, loop_end, ok, ub, run, first>>

\* Lines 69-71 with link->end = 1: new_end = link->end - 2 wraps around and
\* data[new_end] is read outside the buffer.  What follows is undefined: the
\* call may return either value with any end.
DelimTrimSemiOOB ==
    /\ pc = "trim"
    /\ AtSemi
    /\ link.end < 2
    /\ \E r \in BOOLEAN, e \in 0..(size + 1) :
          /\ ok' = r
          /\ link' = [link EXCEPT !.end = e]
          /\ loop_end' = e
    /\ ub' = TRUE
    /\ pc' = "done"
    /\ UNCHANGED <<data, pos, flags, op, given, run, first>>

\* Lines 64, 79, 82-83: the loop is left; an empty span is a failure.
DelimTrimExit ==
    /\ pc = "trim"
    /\ ~AtPunct
    /\ ~AtSemi
    /\ loop_end' = link.end
    /\ IF link.end = link.start
       THEN pc' = "done" /\ ok' = FALSE
       ELSE pc' = "bracket" /\ ok' = ok
    /\ UNCHANGED <<data, pos, flags, op, link, given, ub, run, first>>

\* Lines 85-133: the bracket rule, once, and "return true".
DelimBracket ==
    /\ pc = "bracket"
    /\ link.end >= 1
    /\ link' = [link EXCEPT !.end = bracket_end(data, link, LastByte)]
    /\ pc' = "done"
    /\ ok' = TRUE
    /\ UNCHANGED <<data, pos, flags, op, given, loop_end, ub, run, first>>

\* Line 85 with link->end = 0 (the loop left link->end below link->start):
\* cclose = data[-1] is read outside the buffer and may be any byte.
DelimBracketOOB ==
    /\ pc = "bracket"
    /\ link.end < 1
    /\ \E cclose \in 0..255 : link' = [link EXCEPT !.end = bracket_end(data, link, cclose)]
    /\ ub' = TRUE
    /\ pc' = "done"
    /\ ok' = TRUE
    /\ UNCHANGED <<data, pos, flags, op, given, loop_end, run, first>>

\* autolink_delim called again on the span it returned.
DelimAgain ==
    /\ pc = "done"
    /\ op = "delim"
    /\ ok
    /\ ~ub
    /\ run = 1
    /\ run' = 2
    /\ first' = [given |-> given, link |-> link, dropped |-> link.end # loop_end]
    /\ given' = link
    /\ pc' = "cut"
    /\ UNCHANGED <<data, pos, flags, op, link, loop_end, ok, ub>>

-----------------------------------------------------------------------------
(* The calls *)

\* A matcher up to its "return autolink_delim(data, link)".
Enter(r) ==
    /\ link' = r.link
    /\ given' = r.link
    /\ IF r.ok THEN pc' = "cut" /\ ok' = ok ELSE pc' = "done" /\ ok' = FALSE
    /\ UNCHANGED <<data, pos, flags, op, loop_end, ub, run, first>>

autolink__www ==
    /\ pc = "entry"
    /\ op = "www"
    /\ Enter(autolink__www_head(data, pos, size, flags, link))

autolink__email ==
    /\ pc = "entry"
    /\ op = "email"
    /\ Enter(autolink__email_head(data, pos, size, flags, link))

autolink__url ==
    /\ pc = "entry"
    /\ op = "url"
    /\ Enter(autolink__url_head(data, pos, size, flags, link))

IsSafe ==
    /\ pc = "entry"
    /\ op = "issafe"
    /\ ok' = autolink_issafe(data, size)
    /\ pc' = "done"
    /\ UNCHANGED <<data, pos, flags, op, link, given, loop_end, ub, run, first>>

-----------------------------------------------------------------------------
(* The buffers and calls explored *)

MaxDelimLen == 3
MaxTail == 2
MaxLocal == 1
MaxSafeTail == 2

\* Every sequence over A of length at most n.
Seqs(A, n) == UNION {[1..k -> A] : k \in 0..n}

Chars(t) == {Ord(t[i]) : i \in 1..Len(t)}

NoLink == [start |-> 0, end |-> 0]
NoFirst == [given |-> NoLink, link |-> NoLink, dropped |-> FALSE]

Flags == {0, AUTOLINK_SHORT_DOMAINS, 2}

\* autolink_delim on every span of every short buffer over these bytes.
DelimAlphabet == Chars(<<"a", ".", ";", "&", "(", ")", "\"", "<", "NUL">>)

InitDelim ==
    /\ data \in Seqs(DelimAlphabet, MaxDelimLen)
    /\ \E s \in 0..Len(data) : \E e \in s..Len(data) :
          /\ link = [start |-> s, end |-> e]
          /\ pos = s
    /\ given = link
    /\ flags = 0
    /\ op = "delim"
    /\ pc = "cut"
    /\ loop_end = link.end
    /\ ok = FALSE
    /\ ub = FALSE
    /\ run = 1
    /\ first = NoFirst

NextDelim ==
    \/ DelimCut
    \/ DelimTrimPunct
    \/ DelimTrimSemi
    \/ DelimTrimSemiOOB
    \/ DelimTrimExit
    \/ DelimBracket
    \/ DelimBracketOOB
    \/ DelimAgain

SpecDelim == InitDelim /\ [][NextDelim]_vars

\* autolink_issafe on a scheme, or something close to one, and what follows it.
SafeHeads ==
    { Bytes(<<>>),
      Bytes(<<"/">>),
      Bytes(<<"h", "t", "t", "p", ":", "/", "/">>),
      Bytes(<<"H", "T", "T", "P", ":", "/", "/">>),
      Bytes(<<"h", "T", "t", "P", ":", "/", "/">>),
      Bytes(<<"h", "t", "t", "p", "s", ":", "/", "/">>),
      Bytes(<<"H", "t", "t", "p", "S", ":", "/", "/">>),
      Bytes(<<"f", "t", "p", ":", "/", "/">>),
      Bytes(<<"F", "T", "P", ":", "/", "/">>),
      Bytes(<<"m", "a", "i", "l", "t", "o", ":">>),
      Bytes(<<"M", "A", "I", "L", "T", "O", ":">>),
      Bytes(<<"h", "t", "t", "p", "x">>),
      Bytes(<<"h", "t", "t", "p", ":", "/">>),
      Bytes(<<"h", "t", "t", "p", ":">>),
      Bytes(<<"t", "t", "p", ":", "/", "/">>),
      Bytes(<<"x", "h", "t", "t", "p", ":", "/", "/">>),
      Bytes(<<"j", "a", "v", "a", "s", "c", "r", "i", "p", "t", ":", "/", "/">>),
      Bytes(<<"f", "i", "l", "e", ":", "/", "/">>),
      Bytes(<<"h", "t", "t", "p", "NUL", "/", "/">>),
      Bytes(<<"w", "w", "w", ".">>) }

SafeTailAlphabet == Chars(<<"x", "Z", "7", "/", ":", " ", "NUL">>)

InitSafe ==
    /\ \E h \in SafeHeads : \E t \in Seqs(SafeTailAlphabet, MaxSafeTail) : data = h \o t
    /\ pos = 0
    /\ flags = 0
    /\ op = "issafe"
    /\ pc = "entry"
    /\ link = NoLink
    /\ given = NoLink
    /\ loop_end = 0
    /\ ok = FALSE
    /\ ub = FALSE
    /\ run = 1
    /\ first = NoFirst

SpecSafe == InitSafe /\ [][IsSafe]_vars

\* The matchers: a lead, a trigger and a short tail, and the texts of the
\* documentation.
WwwLeads == {Bytes(<<>>), Bytes(<<"x">>), Bytes(<<" ">>), Bytes(<<"(">>), Bytes(<<"NUL">>)}
WwwCores == {Bytes(<<"w", "w", "w", ".">>), Bytes(<<"W", "w", "w", ".">>)}
WwwTailAlphabet == Chars(<<"a", ".", " ", ")", "(", "&", ";", "<", "NUL">>)

\* Texts probed by autolink__www.
WwwExamples ==
    { Bytes(<<"s", "e", "e", " ", "w", "w", "w", ".", "e", "x", "a", "m", "p", "l", "e", ".", "c", "o", "m", ".">>),
      Bytes(<<"x", "w", "w", "w", ".", "e", "x", "a", "m", "p", "l", "e", ".", "c", "o", "m">>),
      Bytes(<<"w", "w", "w">>),
      Bytes(<<"w", "w", "w", ".", "a", ".", "b", "&", "a", "m", "p", ";">>),
      Bytes(<<"(", "w", "w", "w", ".", "a", ".", "b", "/", "c", "_", "(", "d", ")", ")">>) }

WwwBuffers ==
    {l \o c \o t : l \in WwwLeads, c \in WwwCores, t \in Seqs(WwwTailAlphabet, MaxTail)}
        \cup WwwExamples

UrlLeads == {Bytes(<<>>), Bytes(<<"x">>), Bytes(<<" ">>), Bytes(<<"(">>)}
UrlSchemes ==
    { Bytes(<<>>),
      Bytes(<<"h", "t", "t", "p">>),
      Bytes(<<"H", "T", "T", "P">>),
      Bytes(<<"h", "t", "t", "p", "s">>),
      Bytes(<<"f", "t", "p">>),
      Bytes(<<"m", "a", "i", "l", "t", "o">>),
      Bytes(<<"j", "a", "v", "a", "s", "c", "r", "i", "p", "t">>),
      Bytes(<<"f", "i", "l", "e">>) }
UrlSeps == {Bytes(<<":", "/", "/">>), Bytes(<<":", "/">>)}
UrlTailAlphabet == Chars(<<"a", ".", "-", " ", ")", "\"", "<", ":">>)

\* Texts probed by autolink__url.
UrlExamples ==
    { Bytes(<<"h", "t", "t", "p", ":", "/", "/", "f", "o", "o">>),
      Bytes(<<"h", "t", "t", "p", ":", "/", "/", "e", "x", "a", "m", "p", "l", "e", ".", "c", "o", "m", "&", "a", "m", "p", ";">>),
      Bytes(<<"j", "a", "v", "a", "s", "c", "r", "i", "p", "t", ":", "/", "/", "x", ".", "y">>),
      Bytes(<<"x", "h", "t", "t", "p", ":", "/", "/", "x", ".", "y">>),
      Bytes(<<"(", "h", "t", "t", "p", ":", "/", "/", "e", "x", "a", "m", "p", "l", "e", ".", "c", "o", "m", "/", "f", "o", "o", ")">>),
      Bytes(<<"h", "t", "t", "p", ":", "/", "/", "e", "x", "a", "m", "p", "l", "e", ".", "c", "o", "m", "/", "f", "o", "o", "_", "(", "b", "a", "r", ")">>),
      Bytes(<<"h", "t", "t", "p", ":", "/", "/", "e", "x", "a", "m", "p", "l", "e", ".", "c", "o", "m", "/", "f", "o", "o", ")">>),
      Bytes(<<"h", "t", "t", "p", ":", "/", "/", "a", ".", "b", "/", "\"", "c", "\"">>),
      Bytes(<<"h", "t", "t", "p", ":", "/", "/", "a", ".", "b", "NUL">>) }

UrlBuffers ==
    {l \o c \o p \o t : l \in UrlLeads, c \in UrlSchemes, p \in UrlSeps,
                        t \in Seqs(UrlTailAlphabet, MaxTail)}
        \cup UrlExamples

EmailLeads == Seqs(Chars(<<"a", ".", "+", " ", "NUL">>), MaxLocal)
EmailTailAlphabet == Chars(<<"a", ".", "@", "-", " ">>)
EmailFlags == {0, AUTOLINK_SHORT_DOMAINS}

\* Texts probed by autolink__email.
EmailExamples ==
    { Bytes(<<"c", "o", "n", "t", "a", "c", "t", " ", "m", "e", " ", "a", "t", " ", "a", ".", "b", "@", "e", "x", "a", "m", "p", "l", "e", ".", "c", "o", "m", ".">>),
      Bytes(<<"@", "e", "x", "a", "m", "p", "l", "e", ".", "c", "o", "m">>),
      Bytes(<<"a", "@", "b", ".", "c", ".">>),
      Bytes(<<"<", "a", "@", "b", ".", "c", "d", ">">>) }

EmailBuffers ==
    {l \o Bytes(<<"@">>) \o t : l \in EmailLeads, t \in Seqs(EmailTailAlphabet, MaxTail + 1)}
        \cup EmailExamples

\* The offsets a matcher is probed at: any offset of the buffer and, for
\* autolink__url, one that holds ':' (its assert).
Probes(o, b) ==
    IF o = "url" THEN {p \in 0..(Len(b) - 1) : At(b, p) = Ord(":")} ELSE 0..(Len(b) - 1)

Init ==
    /\ \/ op = "www" /\ data \in WwwBuffers
       \/ op = "email" /\ data \in EmailBuffers
       \/ op = "url" /\ data \in UrlBuffers
    /\ pos \in Probes(op, data)
    /\ flags \in (IF op = "email" THEN EmailFlags ELSE Flags)
    /\ pc = "entry"
    /\ link = NoLink
    /\ given = NoLink
    /\ loop_end = 0
    /\ ok = FALSE
    /\ ub = FALSE
    /\ run = 1
    /\ first = NoFirst

Next ==
    \/ autolink__www
    \/ autolink__email
    \/ autolink__url
    \/ DelimCut
    \/ DelimTrimPunct
    \/ DelimTrimSemi
    \/ DelimTrimExit
    \/ DelimBracket

Spec == Init /\ [][Next]_vars

-----------------------------------------------------------------------------
(* What the claims are stated with *)

Matchers == {"www", "email", "url"}
Returned == pc = "done"
Succeeded == pc = "done" /\ ok

\* The number of offsets in [s, e) holding byte c.
Occurrences(d, c, s, e) == Cardinality({i \in s..(e - 1) : At(d, i) = c})

\* Two bytes equal up to ASCII letter case.
SameLetter(a, b) == a = b \/ (isalpha(a) /\ isalpha(b) /\ (a - b = 32 \/ b - a = 32))

\* d, of length n, starts with prefix p in any letter case, has more bytes
\* than p, and an alphanumeric byte right after p.
StartsWithThenAlnum(d, n, p) ==
    /\ n > Len(p)
    /\ \A i \in 1..Len(p) : SameLetter(d[i], p[i])
    /\ isalnum(d[Len(p) + 1])

Whitelist ==
    { Bytes(<<"/">>),
      Bytes(<<"h", "t", "t", "p", ":", "/", "/">>),
      Bytes(<<"h", "t", "t", "p", "s", ":", "/", "/">>),
      Bytes(<<"f", "t", "p", ":", "/", "/">>),
      Bytes(<<"m", "a", "i", "l", "t", "o", ":">>) }

Whitelisted(d, n) == \E p \in Whitelist : StartsWithThenAlnum(d, n, p)

\* The bytes the punctuation loop is said to drop.
LoopPunct == Chars(<<"?", "!", ".", ",", ":">>)
SentencePunct == LoopPunct \cup {Ord(";")}

\* The closers of the bracket rule and the opener of each.
Closers == Chars(<<"\"", "'", ")", "]", "}">>)
OpenerOf(c) ==
    CASE c = Ord(")") -> Ord("(")
      [] c = Ord("]") -> Ord("[")
      [] c = Ord("}") -> Ord("{")
      [] OTHER        -> c

\* The start of the maximal run of bytes satisfying Good(_) that ends right
\* before offset p: p itself when the byte before p is not one.
RunStart(d, p, Good(_)) ==
    CHOOSE s \in 0..p :
        /\ \A i \in s..(p - 1) : Good(At(d, i))
        /\ s = 0 \/ ~Good(At(d, s - 1))

\* The end of the maximal run of bytes satisfying Good(_) that starts at p.
RunEnd(d, p, Good(_)) ==
    CHOOSE e \in p..Len(d) :
        /\ \A i \in p..(e - 1) : Good(At(d, i))
        /\ e = Len(d) \/ ~Good(At(d, e))

HostByte(c) == isalnum(c) \/ c = Ord("-") \/ c = Ord(".")
LocalByte(c) == isalnum(c) \/ c \in Chars(<<".", "+", "-", "_">>)
AddressByte(c) == isalnum(c) \/ c \in Chars(<<"-", "_", "@", ".">>)

ShortDomainsAllowed == flags % 2 = 1

\* The end the punctuation loop is said to reach from the span [s, e): a last
\* byte in ? ! . , : goes, a whole character reference goes, any other ';'
\* goes alone, and the first other last byte stops the loop.
RECURSIVE LoopResult(_, _, _)
LoopResult(d, s, e) ==
    IF e <= s THEN e
    ELSE LET last == At(d, e - 1)
             refs == {a \in 0..(e - 3) : /\ At(d, a) = Ord("&")
                                         /\ \A i \in (a + 1)..(e - 2) : isalpha(At(d, i))}
         IN  IF last \in LoopPunct THEN LoopResult(d, s, e - 1)
             ELSE IF last = Ord(";")
             THEN (IF refs # {} THEN LoopResult(d, s, CHOOSE a \in refs : TRUE)
                   ELSE LoopResult(d, s, e - 1))
             ELSE e

\* The texts of the examples.
TextUrlAmp == Bytes(<<"h", "t", "t", "p", ":", "/", "/", "e", "x", "a", "m", "p", "l", "e", ".", "c", "o", "m", "&", "a", "m", "p", ";">>)
TextUpperHttp == Bytes(<<"H", "T", "T", "P", ":", "/", "/", "x">>)
TextHttpOnly == Bytes(<<"h", "t", "t", "p", ":", "/", "/">>)
TextHttpx == Bytes(<<"h", "t", "t", "p", "x">>)
TextJavascript == Bytes(<<"j", "a", "v", "a", "s", "c", "r", "i", "p", "t", ":", "/", "/", "x", ".", "y">>)
TextXhttp == Bytes(<<"x", "h", "t", "t", "p", ":", "/", "/", "x", ".", "y">>)
TextHttpFoo == Bytes(<<"h", "t", "t", "p", ":", "/", "/", "f", "o", "o">>)
TextSeeWww == Bytes(<<"s", "e", "e", " ", "w", "w", "w", ".", "e", "x", "a", "m", "p", "l", "e", ".", "c", "o", "m", ".">>)
TextXwww == Bytes(<<"x", "w", "w", "w", ".", "e", "x", "a", "m", "p", "l", "e", ".", "c", "o", "m">>)
TextContact == Bytes(<<"c", "o", "n", "t", "a", "c", "t", " ", "m", "e", " ", "a", "t", " ", "a", ".", "b", "@", "e", "x", "a", "m", "p", "l", "e", ".", "c", "o", "m", ".">>)
TextAtExample == Bytes(<<"@", "e", "x", "a", "m", "p", "l", "e", ".", "c", "o", "m">>)
TextWww == Bytes(<<"w", "w", "w", ".">>)

-----------------------------------------------------------------------------
(* The claims *)

\* C1: whenever match_www, match_email or match_url reports success, the
\* reported span satisfies 0 <= start < end <= length.  On the way there the
\* span a matcher hands to the trimmer stays inside the buffer, start <= end,
\* and the trimmer reads no byte outside the buffer.
C1_SpanInsideBuffer ==
    op \in Matchers =>
        /\ pc \in {"cut", "trim", "bracket"} =>
              0 <= link.start /\ link.start <= link.end /\ link.end <= size
        /\ pc = "trim" /\ AtSemi => link.end >= 2
        /\ pc = "bracket" => link.end >= 1
        /\ Succeeded => 0 <= link.start /\ link.start < link.end /\ link.end <= size

C1_Witness ==
    /\ Succeeded
    /\ op = "url"
    /\ link.start > 0
    /\ link.end < given.end
    /\ given.end = size

C3_DelimIdempotent ==
    (Returned /\ run = 2) => (ok /\ link = first.link)

\* C3, amended: the same whenever the first run's bracket rule dropped no
\* byte (and the first run read no byte outside the buffer).
C3_DelimIdempotentUnlessBracketDropped ==
    (Returned /\ run = 2 /\ ~first.dropped) => (ok /\ ~ub /\ link = first.link)

C3_Witness ==
    /\ Returned
    /\ run = 2
    /\ ~first.dropped
    /\ first.link.end < first.given.end
    /\ At(data, first.link.end) \in LoopPunct
    /\ first.link.start < first.link.end
    /\ link = first.link

\* C4: after the punctuation loop, a final byte in " ' ) ] } is dropped
\* exactly when its opener and the closer occur a different number of times
\* inside the span, and kept when the counts are equal; at most one byte is
\* removed and no other final byte is touched.
C4_BracketRuleByCounts ==
    (Succeeded /\ op \in Matchers) =>
        LET last == At(data, loop_end - 1)
            differ == Occurrences(data, OpenerOf(last), link.start, loop_end)
                          # Occurrences(data, last, link.start, loop_end)
        IN  IF last \in Closers /\ differ
            THEN link.end = loop_end - 1
            ELSE link.end = loop_end

\* C5: the punctuation loop drops a last byte in ? ! . , : , drops a whole
\* character reference ('&', one or more letters, ';') by setting end to the
\* offset of the '&', drops any other ';' alone, and stops at the first last
\* byte that is none of these; match_url on http://example.com&amp; returns
\* http://example.com.
C5_PunctuationLoop ==
    /\ (op \in Matchers /\ (pc = "bracket" \/ Succeeded)) =>
           loop_end = LoopResult(data, given.start, find_lt(data, given.start, given.end))
    /\ (op = "url" /\ pos = 4 /\ Returned /\ data = TextUrlAmp) =>
           (ok /\ link = [start |-> 0, end |-> 18])

\* C6: is_safe_prefix is true exactly when some whitelisted prefix p has
\* length > |p|, the first |p| bytes equal to p in any letter case, and an
\* alphanumeric byte at index |p|; HTTP://x passes, http:// and httpx fail.
C6_SafePrefix ==
    (op = "issafe" /\ Returned) =>
        /\ ok <=> Whitelisted(data, size)
        /\ data = TextUpperHttp => ok
        /\ data = TextHttpOnly => ~ok
        /\ data = TextHttpx => ~ok

C6_Witness ==
    /\ op = "issafe"
    /\ Succeeded
    /\ size > 8
    /\ \E i \in 1..size : isupper(data[i])

\* C7: when match_url succeeds at a ':' at pos, start is the first byte of
\* the maximal run of letters ending right before pos and is_safe_prefix
\* accepts buffer[start..length); javascript://x.y and xhttp://x.y never match.
C7_UrlSchemeWhitelisted ==
    (op = "url" /\ Returned) =>
        /\ ok => /\ link.start = RunStart(data, pos, isalpha)
                 /\ Whitelisted(SubSeq(data, link.start + 1, size), size - link.start)
        /\ data = TextJavascript => ~ok
        /\ data = TextXhttp => ~ok

C7_Witness ==
    /\ op = "url"
    /\ Succeeded
    /\ link.start > 0
    /\ link.start < pos
    /\ isupper(At(data, link.start))

\* C8: match_url fails when the byte at pos+3 is not alphanumeric; with the
\* short-domains flag unset it fails when the hostname run starting at pos+3
\* holds no '.' (http://foo); with the flag set it succeeds on a whitelisted
\* scheme followed by :// and an alphanumeric byte.  match_www succeeds only
\* with a '.' that the domain check counts (one in the hostname run, before
\* the last byte of the buffer), whatever the flags.
C8_ShortDomainFlag ==
    /\ (op = "url" /\ Returned) =>
          /\ (size - pos < 4 \/ ~isalnum(At(data, pos + 3))) => ~ok
          /\ (/\ ~ShortDomainsAllowed
              /\ size - pos >= 4
              /\ Occurrences(data, Ord("."), pos + 3, RunEnd(data, pos + 3, HostByte)) = 0)
                 => ~ok
          /\ (/\ ShortDomainsAllowed
              /\ size - pos >= 4
              /\ At(data, pos + 1) = Ord("/")
              /\ At(data, pos + 2) = Ord("/")
              /\ isalnum(At(data, pos + 3))
              /\ LET s == RunStart(data, pos, isalpha)
                 IN  Whitelisted(SubSeq(data, s + 1, size), size - s))
                 => ok
          /\ data = TextHttpFoo => (ok <=> ShortDomainsAllowed)
    /\ (op = "www" /\ Succeeded) =>
          \E i \in (pos + 1)..(size - 2) :
              /\ At(data, i) = Ord(".")
              /\ i < RunEnd(data, pos, HostByte)

C8_Witness ==
    /\ op = "url"
    /\ Succeeded
    /\ ShortDomainsAllowed
    /\ Occurrences(data, Ord("."), 0, size) = 0

\* C9 (both forms): match_www fails when pos > 0 and the byte before pos is
\* neither punctuation nor whitespace, and when fewer than 4 bytes remain at
\* pos or they are not exactly the lowercase www. ; on success the span starts
\* at pos; "see www.example.com." probed at 4 yields www.example.com and
\* xwww.example.com probed at 1 yields nothing.
C9_WwwRest ==
    /\ (pos > 0 /\ ~ispunct(At(data, pos - 1)) /\ ~isspace(At(data, pos - 1))) => ~ok
    /\ (size - pos < 4 \/ SubSeq(data, pos + 1, pos + 4) # TextWww) => ~ok
    /\ ok => link.start = pos
    /\ (data = TextSeeWww /\ pos = 4) =>
           (ok /\ link = [start |-> 4, end |-> 19])
    /\ (data = TextXwww /\ pos = 1) => ~ok

\* C9: ... and on success the span excludes trailing sentence punctuation.
C9_WwwMatch ==
    (op = "www" /\ Returned) =>
        /\ C9_WwwRest
        /\ ok => At(data, link.end - 1) \notin SentencePunct

\* C9, amended: ... and on success the span's last byte is no sentence
\* punctuation unless the bracket rule dropped the closer that followed it.
C9_WwwMatchUnlessBracketDropped ==
    (op = "www" /\ Returned) =>
        /\ C9_WwwRest
        /\ (ok /\ link.end = loop_end) => At(data, link.end - 1) \notin SentencePunct

C9_Witness ==
    /\ op = "www"
    /\ Succeeded
    /\ pos > 0
    /\ link.end < size
    /\ At(data, link.end) \in SentencePunct
    /\ link.end = loop_end

\* C10: match_email at an '@' at pos fails when pos = 0 or the byte before pos
\* is not alphanumeric or one of . + - _ , and fails unless the run scanned
\* forward from pos holds exactly one '@' and a '.' that is not the last byte
\* of the buffer; on success start < pos, start begins the maximal run of
\* local-part bytes before pos and the span holds exactly one '@';
\* "contact me at a.b@example.com." yields a.b@example.com.
C10_EmailMatch ==
    (op = "email" /\ Returned /\ At(data, pos) = Ord("@")) =>
        LET e == RunEnd(data, pos, AddressByte)
        IN  /\ (pos = 0 \/ ~LocalByte(At(data, pos - 1))) => ~ok
            /\ ok => /\ Occurrences(data, Ord("@"), pos, e) = 1
                     /\ \E i \in pos..(e - 1) : At(data, i) = Ord(".") /\ i # size - 1
            /\ ok => /\ link.start < pos
                     /\ link.start = RunStart(data, pos, LocalByte)
                     /\ Occurrences(data, Ord("@"), link.start, link.end) = 1
            /\ data = TextContact =>
                   (ok /\ link = [start |-> 14, end |-> 29])
            /\ data = TextAtExample => ~ok

====
